---- MODULE Spec2Model ----
(***************************************************************************)
(* Model of src/app.py: the "Run Bot" handler of the Streamlit trading     *)
(* bot, its polling loop and the helpers it calls.                         *)
(*                                                                         *)
(* Units.  Prices (candle closes, current_price, entry_price) are integers *)
(* in units of 1000 USDT.  trade_amount is in USDT.  Quantities are        *)
(* integers in units of 10^-6 of the base asset (the 6 decimals of         *)
(* round(.., 6)).  Percentages are integers in tenths of a percent         *)
(* (2.0 % = 20), so price * (1 + pct/100) is kept as the integer           *)
(* price * (1000 + pct), i.e. target_price and stop_price are in           *)
(* 1/1000 of the price unit.  Floating-point error is not modelled,        *)
(* except where round() sits on a decimal tie (see Round6).                *)
(*                                                                         *)
(* Streamlit runs the script top to bottom on a click; the handler is the  *)
(* body of "if st.sidebar.button(...)".  A widget interaction while the    *)
(* loop is running (which makes Streamlit abandon the run) is not          *)
(* modelled: clicks are taken when the handler has returned.               *)
(***************************************************************************)
EXTENDS Integers, Sequences, FiniteSets

VARIABLES
    has_client,     \* line 12-13: client exists iff both credentials were given
    trade_amount,   \* line 25: sidebar value read by the running script
    profit_target,  \* line 26
    stop_loss,      \* line 27
    active_trade,   \* st.session_state["active_trade"]: None or a position
    pc,             \* where the handler is: "idle" (not running), "tick"
                    \* (at line 78, top of the loop body), "sleep" (line 156)
    market,         \* the closes client.get_klines would return now
    calls,          \* exchange calls made by the last step, in order
    messages,       \* st.error / st.warning / st.success of the last step
    locals,         \* lines 80-86: current_price, the three averages and
                    \* action as the last step computed them (NoLocals if
                    \* it computed none)
    stop_requested  \* somebody asked the running bot to stop; no line of
                    \* the script reads such a request (line 77: while True)

vars == <<has_client, trade_amount, profit_target, stop_loss, active_trade,
          pc, market, calls, messages, locals, stop_requested>>

\* st.session_state["active_trade"] absent or None: a record with no side, so
\* that it compares with positions.
None == [side |-> "None", entry_price |-> 0, quantity |-> 0,
         target_price |-> 0, stop_price |-> 0]

\* ------------------------------------------------------------------------
\* Program constants
\* ------------------------------------------------------------------------
KlineLimit == 50
ShortWindow == 5
MediumWindow == 20
LongWindow == 50
MinTradeAmount == 10
MinPct == 5
MaxPct == 100

\* ------------------------------------------------------------------------
\* Bounds of the model
\* ------------------------------------------------------------------------
MaxSlope == 1
MaxProbe == 3

TradeAmounts == {MinTradeAmount, 50}
Pcts == {MinPct, 20, MaxPct}
\* Closing price of the flat part of a candle window, in 1000 USDT.
Bases == {100, 20005, 30000}
Slopes == (-MaxSlope)..MaxSlope
WindowLens == {0, KlineLimit - 1, KlineLimit}
TrendLen == 5

\* A candle window: n closes, flat at base, the last TrendLen of them moving
\* by slope per candle.
MkWindow(n, base, slope) ==
    [i \in 1..n |-> IF i > n - TrendLen THEN base + slope * (i - (n - TrendLen))
                    ELSE base]

\* Frames too short for the medium and for the short average as well.
ShortLens == {ShortWindow - 1, MediumWindow - 1}

Windows ==
    {MkWindow(n, b, s) : n \in WindowLens, b \in Bases, s \in Slopes}
    \cup {MkWindow(n, 100, s) : n \in ShortLens, s \in Slopes}

\* Free balances client.get_asset_balance may report (10^-6 units); -1 stands
\* for a call that raises.
Balances == {-1, 0, 250}

\* ------------------------------------------------------------------------
\* Helpers (lines 30-68)
\* ------------------------------------------------------------------------
RECURSIVE SumLast(_, _)
SumLast(df, k) ==
    IF k = 0 THEN 0 ELSE df[Len(df) - k + 1] + SumLast(df, k - 1)

\* df["close"].rolling(window=k).mean().iloc[-1]: NaN (def = FALSE) when the
\* frame has fewer than k rows, else the mean of the last k closes, kept as
\* the exact fraction sum / k.
\* Mutant: rolling(window=k, min_periods=1): a short frame gives the mean of
\* the rows there are.
RollingMean_Partial(df, k) ==
    IF Len(df) < k
    THEN [def |-> TRUE, sum |-> SumLast(df, Len(df)), k |-> Len(df)]
    ELSE [def |-> TRUE, sum |-> SumLast(df, k), k |-> k]

RollingMean(df, k) ==
    IF Len(df) < k THEN [def |-> FALSE, sum |-> 0, k |-> 1]
    ELSE [def |-> TRUE, sum |-> SumLast(df, k), k |-> k]

calculate_averages(df) ==
    [short_avg  |-> RollingMean(df, ShortWindow),
     medium_avg |-> RollingMean(df, MediumWindow),
     long_avg   |-> RollingMean(df, LongWindow)]

\* NaN, and the locals of a step that did not get to line 80.
NaN == [def |-> FALSE, sum |-> 0, k |-> 1]

NoLocals ==
    [current_price |-> 0, short_avg |-> NaN, medium_avg |-> NaN,
     long_avg |-> NaN, action |-> "-"]

\* A price as a fraction.
Num(p) == [def |-> TRUE, sum |-> p, k |-> 1]

\* a > b on floats: false as soon as one side is NaN.
Gt(a, b) == a.def /\ b.def /\ a.sum * b.k > b.sum * a.k
Lt(a, b) == Gt(b, a)

\* Mutant: the comparisons of the price with the short average are not
\* strict.
determine_trade_action_NonStrict(short_avg, medium_avg, long_avg, current_price) ==
    IF Gt(medium_avg, long_avg) /\ Gt(short_avg, medium_avg)
       /\ short_avg.def /\ ~Lt(Num(current_price), short_avg)
    THEN "Sell"
    ELSE IF Lt(medium_avg, long_avg) /\ Lt(short_avg, medium_avg)
            /\ short_avg.def /\ ~Gt(Num(current_price), short_avg)
    THEN "Buy"
    ELSE "Hold"

determine_trade_action(short_avg, medium_avg, long_avg, current_price) ==
    IF Gt(medium_avg, long_avg) /\ Gt(short_avg, medium_avg)
       /\ Gt(Num(current_price), short_avg)
    THEN "Sell"
    ELSE IF Lt(medium_avg, long_avg) /\ Lt(short_avg, medium_avg)
            /\ Lt(Num(current_price), short_avg)
    THEN "Buy"
    ELSE "Hold"

\* round(trade_amount / current_price, 6) in 10^-6 units: the integers
\* nearest to trade_amount * 1000 / current_price.  On an exact decimal tie
\* the float result depends on the binary representation of the quotient
\* (round(5e-07, 6) = 0.0, round(1.5e-06, 6) = 2e-06, round(2.5e-06, 6) =
\* 3e-06), so both neighbours are possible outcomes.
\* Mutant: the quotient is truncated to 6 decimals instead of rounded.
Round6_Truncated(amount, price) == {(amount * 1000) \div price}

Round6(amount, price) ==
    LET n == amount * 1000
        lo == n \div price
        r2 == 2 * (n % price)
    IN  IF r2 < price THEN {lo}
        ELSE IF r2 > price THEN {lo + 1}
        ELSE {lo, lo + 1}

\* place_order (lines 57-68): one client.order_market call; its result is
\* the order (truthy) or, when the call raises, None after one st.error.
OrderCall(side, quantity, ok) ==
    [op |-> "order_market", side |-> side, quantity |-> quantity, ok |-> ok]

\* Mutant: a failed order is returned as if it were an order.
place_order_Truthy(side, quantity, ok) ==
    [order |-> TRUE,
     calls |-> <<OrderCall(side, quantity, ok)>>,
     messages |-> IF ok THEN <<>> ELSE <<"Error placing order">>]

place_order(side, quantity, ok) ==
    [order |-> ok,
     calls |-> <<OrderCall(side, quantity, ok)>>,
     messages |-> IF ok THEN <<>> ELSE <<"Error placing order">>]

KlinesCall(ok) == [op |-> "get_klines", side |-> "-", quantity |-> 0, ok |-> ok]
BalanceCall(ok) ==
    [op |-> "get_asset_balance", side |-> "-", quantity |-> 0, ok |-> ok]

\* ------------------------------------------------------------------------
\* The position record (lines 94-100 and 111-117)
\* ------------------------------------------------------------------------
\* Mutant: the two percentages are swapped.
BuyPosition_Swapped(current_price, quantity) ==
    [side |-> "BUY", entry_price |-> current_price, quantity |-> quantity,
     target_price |-> current_price * (1000 + stop_loss),
     stop_price |-> current_price * (1000 - profit_target)]

BuyPosition(current_price, quantity) ==
    [side |-> "BUY", entry_price |-> current_price, quantity |-> quantity,
     target_price |-> current_price * (1000 + profit_target),
     stop_price |-> current_price * (1000 - stop_loss)]

\* Mutant: the Sell position gets the Buy side's target and stop.
SellPosition_AsBuy(current_price, quantity) ==
    [side |-> "SELL", entry_price |-> current_price, quantity |-> quantity,
     target_price |-> current_price * (1000 + profit_target),
     stop_price |-> current_price * (1000 - stop_loss)]

SellPosition(current_price, quantity) ==
    [side |-> "SELL", entry_price |-> current_price, quantity |-> quantity,
     target_price |-> current_price * (1000 - profit_target),
     stop_price |-> current_price * (1000 + stop_loss)]

\* "active_trade" in st.session_state and it is not None, at line 74 (the
\* handler's guard) and at line 104 (the Sell branch).
\* Mutant: the handler's guard never finds an active trade.
AlreadyActive_Dropped == FALSE

AlreadyActive == active_trade # None

\* Mutant: the Sell branch is taken when no position is open.
SellGuard_Idle == active_trade = None

SellGuard == active_trade # None

\* ------------------------------------------------------------------------
\* One iteration of the while loop (lines 78-156)
\* ------------------------------------------------------------------------

\* get_live_data and line 80 raise: no client (NameError at line 32), the
\* get_klines call fails, or the frame is empty (iloc[-1] at line 80).
FetchRaises(fetchOk) == ~has_client \/ ~fetchOk \/ Len(market) = 0

\* Lines 92/102 and 109/119: the branch ends in break exactly when the order
\* is truthy.
\* Mutant: the break is missing.
BreakAfter_Never(order) == FALSE

\* Mutant: the test of the order is inverted.
BreakAfter_Inverted(order) == ~order

BreakAfter(order) == order

\* Lines 88-119: the entry branches.  raised: an exception left the loop
\* body; broke: the branch ended in break.
Entry(action, current_price, quantity, orderOk, bal) ==
    IF action = "Buy"
    THEN LET o == place_order("BUY", quantity, orderOk)
         IN  [raised |-> FALSE, broke |-> BreakAfter(o.order),
              active_trade |-> IF o.order
                               THEN BuyPosition(current_price, quantity)
                               ELSE active_trade,
              calls |-> o.calls,
              messages |-> o.messages \o
                           (IF o.order THEN <<"Buy order placed">> ELSE <<>>)]
    ELSE IF action = "Sell" /\ SellGuard
    THEN IF bal < 0
         THEN [raised |-> TRUE, broke |-> FALSE, active_trade |-> active_trade,
               calls |-> <<BalanceCall(FALSE)>>, messages |-> <<>>]
         ELSE LET o == place_order("SELL", bal, orderOk)
              IN  [raised |-> FALSE, broke |-> BreakAfter(o.order),
                   active_trade |-> IF o.order
                                    THEN SellPosition(current_price, bal)
                                    ELSE active_trade,
                   calls |-> <<BalanceCall(TRUE)>> \o o.calls,
                   messages |-> o.messages \o
                                (IF o.order THEN <<"Sell order placed">>
                                 ELSE <<>>)]
    ELSE [raised |-> FALSE, broke |-> FALSE, active_trade |-> active_trade,
          calls |-> <<>>, messages |-> <<>>]

\* The exit conditions of lines 132, 136, 141, 145 on position at.
TargetReached(at, current_price) ==
    IF at.side = "BUY" THEN current_price * 1000 >= at.target_price
    ELSE current_price * 1000 <= at.target_price

StopTriggered(at, current_price) ==
    IF at.side = "BUY" THEN current_price * 1000 <= at.stop_price
    ELSE current_price * 1000 >= at.stop_price

CloseSide(at) == IF at.side = "BUY" THEN "SELL" ELSE "BUY"

\* Lines 129-148: exit monitoring of position at (None: nothing to do).
Monitor(at, current_price, closeOk) ==
    IF at = None
    THEN [active_trade |-> at, calls |-> <<>>, messages |-> <<>>]
    ELSE IF TargetReached(at, current_price)
    THEN LET o == place_order(CloseSide(at), at.quantity, closeOk)
         IN  [active_trade |-> None, calls |-> o.calls,
              messages |-> <<"Profit target reached">> \o o.messages]
    ELSE IF StopTriggered(at, current_price)
    THEN LET o == place_order(CloseSide(at), at.quantity, closeOk)
         IN  [active_trade |-> None, calls |-> o.calls,
              messages |-> <<"Stop loss triggered">> \o o.messages]
    ELSE [active_trade |-> at, calls |-> <<>>, messages |-> <<>>]

\* Lines 80-86: the signal of a fetched, non-empty frame df.
Signal(df) ==
    LET avg == calculate_averages(df)
    IN  determine_trade_action(avg.short_avg, avg.medium_avg, avg.long_avg,
                               df[Len(df)])

\* Lines 80-86: what the iteration computes from the frame.
Locals(df) ==
    LET avg == calculate_averages(df)
    IN  [current_price |-> df[Len(df)], short_avg |-> avg.short_avg,
         medium_avg |-> avg.medium_avg, long_avg |-> avg.long_avg,
         action |-> Signal(df)]

\* The whole loop body on a fetched frame df.
Body(df, quantity, orderOk, closeOk, bal) ==
    LET current_price == df[Len(df)]
        action == Signal(df)
        e == Entry(action, current_price, quantity, orderOk, bal)
        m == Monitor(e.active_trade, current_price, closeOk)
    IN  IF e.raised
        THEN [pc |-> "idle", active_trade |-> e.active_trade,
              calls |-> <<KlinesCall(TRUE)>> \o e.calls,
              messages |-> e.messages \o <<"Error">>,
              locals |-> Locals(df)]
        ELSE IF e.broke
        THEN [pc |-> "idle", active_trade |-> e.active_trade,
              calls |-> <<KlinesCall(TRUE)>> \o e.calls,
              messages |-> e.messages,
              locals |-> Locals(df)]
        ELSE [pc |-> "sleep", active_trade |-> m.active_trade,
              calls |-> <<KlinesCall(TRUE)>> \o e.calls \o m.calls,
              messages |-> e.messages \o m.messages,
              locals |-> Locals(df)]

\* Lines 158-159 after lines 79-80 raised: the outer except reports the
\* error and the handler returns.  Without a client no call was made; with
\* one, get_klines was called and either failed or returned an empty frame.
\* Mutant: the outer except swallows the error.
FetchFailed_Silent(fetchOk) ==
    [pc |-> "idle", active_trade |-> active_trade,
     calls |-> IF has_client THEN <<KlinesCall(fetchOk)>> ELSE <<>>,
     messages |-> <<>>,
     locals |-> NoLocals]

FetchFailed(fetchOk) ==
    [pc |-> "idle", active_trade |-> active_trade,
     calls |-> IF has_client THEN <<KlinesCall(fetchOk)>> ELSE <<>>,
     messages |-> <<"Error">>,
     locals |-> NoLocals]

Step(r) ==
    /\ pc' = r.pc
    /\ active_trade' = r.active_trade
    /\ calls' = r.calls
    /\ messages' = r.messages
    /\ locals' = r.locals
    /\ UNCHANGED <<has_client, trade_amount, profit_target, stop_loss, market,
                   stop_requested>>

Tick ==
    /\ pc = "tick"
    /\ \E fetchOk, orderOk, closeOk \in BOOLEAN, bal \in Balances :
         IF FetchRaises(fetchOk)
         THEN Step(FetchFailed(fetchOk))
         ELSE \E quantity \in Round6(trade_amount, market[Len(market)]) :
                Step(Body(market, quantity, orderOk, closeOk, bal))

\* time.sleep(300) returns (line 156) and the loop starts its next iteration.
Wake ==
    /\ pc = "sleep"
    /\ pc' = "tick"
    /\ calls' = <<>>
    /\ messages' = <<>>
    /\ locals' = NoLocals
    /\ UNCHANGED <<has_client, trade_amount, profit_target, stop_loss,
                   active_trade, market, stop_requested>>

\* ------------------------------------------------------------------------
\* The "Run Bot" click (lines 71-77): the script runs with the sidebar
\* values of that moment; with an active trade it only warns, else it
\* enters the loop.
\* ------------------------------------------------------------------------
RunBot ==
    /\ pc = "idle"
    /\ \E ta \in TradeAmounts, pt \in Pcts, sl \in Pcts :
         /\ trade_amount' = ta
         /\ profit_target' = pt
         /\ stop_loss' = sl
    /\ IF AlreadyActive
       THEN /\ messages' = <<"An active trade is already in progress.">>
            /\ pc' = "idle"
       ELSE /\ messages' = <<>>
            /\ pc' = "tick"
    /\ calls' = <<>>
    /\ locals' = NoLocals
    /\ stop_requested' = FALSE
    /\ UNCHANGED <<has_client, active_trade, market>>

\* The exchange's candles change between calls; the program does nothing in
\* such a step.
MarketMove ==
    /\ market' \in Windows \ {market}
    /\ calls' = <<>>
    /\ messages' = <<>>
    /\ locals' = NoLocals
    /\ UNCHANGED <<has_client, trade_amount, profit_target, stop_loss,
                   active_trade, pc, stop_requested>>

\* A request to stop reaches the running bot.  The loop of line 77 is
\* "while True" and nothing in lines 78-156 looks at a request, so the
\* request changes nothing the script reads.
RequestStop ==
    /\ pc # "idle"
    /\ ~stop_requested
    /\ stop_requested' = TRUE
    /\ calls' = <<>>
    /\ messages' = <<>>
    /\ locals' = NoLocals
    /\ UNCHANGED <<has_client, trade_amount, profit_target, stop_loss,
                   active_trade, pc, market>>

Init ==
    /\ has_client \in BOOLEAN
    /\ trade_amount = 50
    /\ profit_target = 20
    /\ stop_loss = 20
    /\ active_trade = None
    /\ pc = "idle"
    /\ market \in Windows
    /\ calls = <<>>
    /\ messages = <<>>
    /\ locals = NoLocals
    /\ stop_requested = FALSE

Next == RunBot \/ Tick \/ Wake \/ MarketMove \/ RequestStop

Spec == Init /\ [][Next]_vars

\* The loop keeps running while it is in the loop (every blocking call and
\* the sleep return), and the user keeps clicking Run Bot when the handler
\* has returned.  The exchange's prices are under no obligation.
FairSpec == Spec /\ WF_vars(Tick) /\ WF_vars(Wake) /\ WF_vars(RunBot)

\* ------------------------------------------------------------------------
\* Vocabulary of the properties
\* ------------------------------------------------------------------------
\* A step that runs one loop iteration.
TickStep == pc = "tick" /\ pc' # "tick"

Orders(cs) == SelectSeq(cs, LAMBDA c : c.op = "order_market")

HasCall(cs, op) == \E i \in 1..Len(cs) : cs[i].op = op

Count(msgs, m) == Len(SelectSeq(msgs, LAMBDA x : x = m))

\* The order that closes position at.
IsClosingOrder(c, at) ==
    /\ c.op = "order_market"
    /\ c.side = (IF at.side = "BUY" THEN "SELL" ELSE "BUY")
    /\ c.quantity = at.quantity

\* ------------------------------------------------------------------------
\* C1: while a position is open no step (click or tick) opens a second one:
\* the stored position is kept or cleared, never replaced, and the only
\* order a step may place is the order that closes it.
\* ------------------------------------------------------------------------
C1_SingleInFlight ==
    [][active_trade # None =>
         /\ active_trade' \in {active_trade, None}
         /\ \A i \in 1..Len(calls') :
               calls'[i].op = "order_market" =>
                   /\ IsClosingOrder(calls'[i], active_trade)
                   /\ active_trade' = None]_vars

\* A click on Run Bot was handled while a position was open.
C1_Witness ==
    /\ active_trade # None
    /\ messages = <<"An active trade is already in progress.">>

\* ------------------------------------------------------------------------
\* C6: a tick whose get_klines call fails leaves active_trade as it was,
\* places no order and reports the error exactly once.
\* ------------------------------------------------------------------------
C6_FetchFailureFrame ==
    [][(TickStep /\ HasCall(calls', "get_klines") /\ ~calls'[1].ok) =>
         /\ active_trade' = active_trade
         /\ Len(Orders(calls')) = 0
         /\ ~HasCall(calls', "get_asset_balance")
         /\ Count(messages', "Error") = 1
         /\ Len(messages') = 1]_vars

C6_Witness ==
    /\ calls = <<KlinesCall(FALSE)>>
    /\ messages = <<"Error">>
    /\ pc = "idle"

\* ------------------------------------------------------------------------
\* C8: a tick whose entry order fails stores no position, reports the
\* failure once, places no second order and goes on to sleep, from where the
\* next tick starts.
\* ------------------------------------------------------------------------
C8_EntryOrderFailure ==
    [][(TickStep /\ active_trade = None /\ Len(Orders(calls')) > 0
        /\ ~Orders(calls')[1].ok) =>
         /\ active_trade' = None
         /\ Len(Orders(calls')) = 1
         /\ Count(messages', "Error placing order") = 1
         /\ Count(messages', "Error") = 0
         /\ pc' = "sleep"]_vars

C8_Witness ==
    /\ pc = "sleep"
    /\ active_trade = None
    /\ Len(Orders(calls)) = 1
    /\ ~Orders(calls)[1].ok
    /\ ENABLED Wake

\* ------------------------------------------------------------------------
\* determine_trade_action on its own (line 86 applied to arbitrary
\* arguments): the arguments are drawn from small sets of prices and of
\* averages, NaN included, and Classify applies the function to them.
\* ------------------------------------------------------------------------
ProbeAverages ==
    {NaN} \cup {[def |-> TRUE, sum |-> v, k |-> k] :
                    v \in 1..MaxProbe, k \in {1, 2}}

ClassifyInit ==
    /\ has_client = TRUE
    /\ trade_amount = 50
    /\ profit_target = 20
    /\ stop_loss = 20
    /\ active_trade = None
    /\ pc = "idle"
    /\ market = <<>>
    /\ calls = <<>>
    /\ messages = <<>>
    /\ stop_requested = FALSE
    /\ locals \in [current_price : 1..MaxProbe, short_avg : ProbeAverages,
                    medium_avg : ProbeAverages, long_avg : ProbeAverages,
                    action : {"-"}]

Classify ==
    /\ locals.action = "-"
    /\ locals' = [locals EXCEPT !.action =
                     determine_trade_action(locals.short_avg,
                                            locals.medium_avg,
                                            locals.long_avg,
                                            locals.current_price)]
    /\ UNCHANGED <<has_client, trade_amount, profit_target, stop_loss,
                   active_trade, pc, market, calls, messages, stop_requested>>

ClassifySpec == ClassifyInit /\ [][Classify]_vars

\* ------------------------------------------------------------------------
\* The stores of lines 94-100 and 111-117 on their own: price, quantity and
\* the two percentages are drawn from their sets and StorePosition writes
\* the record either branch builds from them.
\* ------------------------------------------------------------------------
StoreInit ==
    /\ has_client = TRUE
    /\ trade_amount \in TradeAmounts
    /\ profit_target \in Pcts
    /\ stop_loss \in Pcts
    /\ active_trade = None
    /\ pc = "tick"
    /\ market \in {w \in Windows : Len(w) > 0}
    /\ calls = <<>>
    /\ messages = <<>>
    /\ locals = NoLocals
    /\ stop_requested = FALSE

StorePosition ==
    /\ pc = "tick"
    /\ \E quantity \in Round6(trade_amount, market[Len(market)])
                        \cup (Balances \ {-1}) :
         \/ active_trade' = BuyPosition(market[Len(market)], quantity)
         \/ active_trade' = SellPosition(market[Len(market)], quantity)
    /\ pc' = "idle"
    /\ UNCHANGED <<has_client, trade_amount, profit_target, stop_loss, market,
                   calls, messages, locals, stop_requested>>

StoreSpec == StoreInit /\ [][StorePosition]_vars

\* ------------------------------------------------------------------------
\* The loop body on a stored position.  Lines 104 and 129-148 read
\* st.session_state["active_trade"], but under Spec the loop only ever runs
\* with that slot None.  LoopBodySpec starts the loop body with a position
\* of the shape lines 94-100 / 111-117 store already in the slot, to check
\* what the text of those lines does with it.
\* ------------------------------------------------------------------------
StoredPositionInit ==
    /\ has_client = TRUE
    /\ trade_amount \in TradeAmounts
    /\ profit_target \in Pcts
    /\ stop_loss \in Pcts
    /\ market \in Windows
    /\ pc = "tick"
    /\ calls = <<>>
    /\ messages = <<>>
    /\ locals = NoLocals
    /\ stop_requested = FALSE
    /\ \E w \in Windows :
         /\ Len(w) = KlineLimit
         /\ \/ /\ Signal(w) = "Buy"
               /\ \E q \in Round6(trade_amount, w[Len(w)]) :
                     q > 0 /\ active_trade = BuyPosition(w[Len(w)], q)
            \/ /\ Signal(w) = "Sell"
               /\ \E q \in Balances :
                     q > 0 /\ active_trade = SellPosition(w[Len(w)], q)

LoopBodySpec == StoredPositionInit /\ [][Next]_vars

\* The price the exchange shows now meets the target or the stop condition of
\* position at.
ExitDue(at, mkt) ==
    /\ at # None
    /\ Len(mkt) > 0
    /\ \/ TargetReached(at, mkt[Len(mkt)])
       \/ StopTriggered(at, mkt[Len(mkt)])

\* ------------------------------------------------------------------------
\* C2: an open Buy position whose target or stop condition holds on the
\* exchange's price is closed by the loop: unless the price leaves the
\* condition first, a tick sells the held quantity and the slot becomes
\* None.
\* ------------------------------------------------------------------------
C2_BuyExitCloses ==
    (active_trade.side = "BUY" /\ ExitDue(active_trade, market))
      ~> \/ active_trade.side = "BUY" /\ ~ExitDue(active_trade, market)
         \/ /\ active_trade = None
            /\ \E i \in 1..Len(calls) :
                  calls[i].op = "order_market" /\ calls[i].side = "SELL"

\* ------------------------------------------------------------------------
\* C3: the round trip closes: a position opened from Idle, of either side,
\* whose target or stop condition holds is brought back to None by a tick
\* that requests exactly one order, unless the price leaves the condition
\* first.
\* ------------------------------------------------------------------------
C3_RoundTripCloses ==
    ExitDue(active_trade, market)
      ~> \/ active_trade # None /\ ~ExitDue(active_trade, market)
         \/ active_trade = None /\ Len(Orders(calls)) = 1

\* A tick that fetched a non-empty frame.
FetchedTick ==
    /\ TickStep
    /\ Len(market) > 0
    /\ HasCall(calls', "get_klines")
    /\ calls'[1].ok

\* ------------------------------------------------------------------------
\* C4: on a tick with signal Sell and no position open the bot reads the
\* free balance, submits a market Sell for it and, when the order succeeds,
\* stores a Sell position with target price*(1 - profit_target/100) and stop
\* price*(1 + stop_loss/100).
\* ------------------------------------------------------------------------
C4_SellEntry ==
    [][(FetchedTick /\ active_trade = None /\ Signal(market) = "Sell") =>
         /\ HasCall(calls', "get_asset_balance")
         /\ \A i \in 1..Len(calls') :
               (calls'[i].op = "order_market" /\ calls'[i].ok) =>
                   /\ calls'[i].side = "SELL"
                   /\ active_trade' =
                        [side |-> "SELL",
                         entry_price |-> market[Len(market)],
                         quantity |-> calls'[i].quantity,
                         target_price |->
                             market[Len(market)] * (1000 - profit_target),
                         stop_price |->
                             market[Len(market)] * (1000 + stop_loss)]]_vars

\* ------------------------------------------------------------------------
\* C5: a tick whose get_klines call fails does not end the loop: the loop
\* goes on to its sleep and a next tick.
\* ------------------------------------------------------------------------
C5_FetchFailureKeepsLooping ==
    [][(TickStep /\ HasCall(calls', "get_klines") /\ ~calls'[1].ok) =>
         pc' = "sleep"]_vars

\* ------------------------------------------------------------------------
\* C9: client.order_market is never called with a quantity that is zero or
\* negative.
\* ------------------------------------------------------------------------
C9_PositiveOrderQuantity ==
    \A i \in 1..Len(calls) :
        calls[i].op = "order_market" => calls[i].quantity > 0

\* ------------------------------------------------------------------------
\* C10: the quantity of a Buy entry is trade_amount / price rounded to 6
\* decimals.  As claimed it is also strictly positive for every price;
\* as amended it is never negative, strictly positive when the quotient
\* is above 0.0000005 and zero when the quotient is below 0.0000005.
\* ------------------------------------------------------------------------
\* q (10^-6 units) is within half a unit of amount / price.
IsRounded6(q, amount, price) ==
    /\ 2 * (q * price - amount * 1000) <= price
    /\ 2 * (amount * 1000 - q * price) <= price

BuyEntryTick == FetchedTick /\ Signal(market) = "Buy"

C10_BuyQuantityPositive ==
    [][BuyEntryTick =>
         /\ Len(Orders(calls')) > 0
         /\ Orders(calls')[1].side = "BUY"
         /\ IsRounded6(Orders(calls')[1].quantity, trade_amount,
                       market[Len(market)])
         /\ Orders(calls')[1].quantity > 0]_vars

C10_BuyQuantityRounded ==
    [][BuyEntryTick =>
         LET q == Orders(calls')[1].quantity
             price == market[Len(market)]
         IN  /\ Len(Orders(calls')) > 0
             /\ Orders(calls')[1].side = "BUY"
             /\ IsRounded6(q, trade_amount, price)
             /\ q >= 0
             /\ (2 * trade_amount * 1000 > price => q > 0)
             /\ (2 * trade_amount * 1000 < price => q = 0)]_vars

\* A Buy entry was ordered with quantity 0.
C10_Witness ==
    /\ Len(Orders(calls)) > 0
    /\ Orders(calls)[1].side = "BUY"
    /\ Orders(calls)[1].quantity = 0
    /\ trade_amount >= MinTradeAmount

C11_StopHonoured ==
    [][(stop_requested /\ pc = "sleep") => pc' # "tick"]_vars

\* ------------------------------------------------------------------------
\* C12: without credentials (no client) the loop never begins: the handler
\* is never inside the loop, no exchange operation is attempted and the
\* position slot stays None.
\* ------------------------------------------------------------------------
C12_NoClientNoLoop ==
    ~has_client =>
        /\ pc = "idle"
        /\ calls = <<>>
        /\ active_trade = None

\* ------------------------------------------------------------------------
\* C13: determine_trade_action is the momentum-follow rule with strict
\* inequalities: Sell exactly when medium > long, short > medium and
\* price > short; Buy exactly when medium < long, short < medium and
\* price < short; Hold otherwise, in particular when one of the comparisons
\* is an equality; Buy and Sell are never both applicable.
\* ------------------------------------------------------------------------
\* a > b and a = b on averages that have a value.
Above(a, b) == a.def /\ b.def /\ a.sum * b.k > b.sum * a.k

Same(a, b) == a.def /\ b.def /\ a.sum * b.k = b.sum * a.k

C13_MomentumRule ==
    locals.action # "-" =>
        LET s == locals.short_avg
            m == locals.medium_avg
            l == locals.long_avg
            p == [def |-> TRUE, sum |-> locals.current_price, k |-> 1]
            sell == Above(m, l) /\ Above(s, m) /\ Above(p, s)
            buy == Above(l, m) /\ Above(m, s) /\ Above(s, p)
        IN  /\ locals.action \in {"Buy", "Sell", "Hold"}
            /\ locals.action = "Sell" <=> sell
            /\ locals.action = "Buy" <=> buy
            /\ locals.action = "Hold" <=> (~sell /\ ~buy)
            /\ (Same(m, l) \/ Same(s, m) \/ Same(p, s)) =>
                   locals.action = "Hold"
            /\ ~(sell /\ buy)

\* Classified: everything points up, but the price equals the short average.
C13_Witness ==
    /\ locals.action = "Hold"
    /\ Above(locals.medium_avg, locals.long_avg)
    /\ Above(locals.short_avg, locals.medium_avg)
    /\ Same([def |-> TRUE, sum |-> locals.current_price, k |-> 1],
            locals.short_avg)

\* ------------------------------------------------------------------------
\* C14: on a frame of fewer than 50 candles the long average is undefined,
\* and a tick on which the short, the medium or the long average is
\* undefined classifies as Hold and places no order, whatever the price and
\* the other averages are.
\* ------------------------------------------------------------------------
C14_UndefinedAverageHolds ==
    [][FetchedTick =>
         /\ Len(market) < LongWindow => ~locals'.long_avg.def
         /\ Len(market) < MediumWindow => ~locals'.medium_avg.def
         /\ Len(market) < ShortWindow => ~locals'.short_avg.def
         /\ (\/ ~locals'.short_avg.def
             \/ ~locals'.medium_avg.def
             \/ ~locals'.long_avg.def) =>
                /\ locals'.action = "Hold"
                /\ Len(Orders(calls')) = 0
                /\ active_trade' = active_trade]_vars

\* A tick on 49 falling candles: short < medium and price < short, no long
\* average, Hold.
C14_Witness ==
    /\ locals.action = "Hold"
    /\ Len(market) = LongWindow - 1
    /\ ~locals.long_avg.def
    /\ Above(locals.medium_avg, locals.short_avg)
    /\ locals.current_price * locals.short_avg.k < locals.short_avg.sum
    /\ Len(Orders(calls)) = 0
    /\ pc = "sleep"

\* ------------------------------------------------------------------------
\* C15: a tick whose entry order succeeds leaves the loop in that same
\* tick: the handler returns without sleeping, and the tick does nothing
\* after the entry (no further call, no exit message).  Every other tick on
\* a fetched frame (Hold, ignored Sell, failed order) goes to sleep, from
\* where the next tick starts.
\* ------------------------------------------------------------------------
C15_SingleTradePerInvocation ==
    [][FetchedTick =>
         IF Len(Orders(calls')) > 0 /\ Orders(calls')[1].ok
         THEN /\ pc' = "idle"
              /\ active_trade' # None
              /\ Len(calls') = 2
              /\ messages' = <<"Buy order placed">>
         ELSE /\ pc' = "sleep"
              /\ active_trade' = active_trade]_vars

\* The handler has just returned from the tick that opened a position.
C15_Witness ==
    /\ pc = "idle"
    /\ active_trade # None
    /\ Len(calls) = 2
    /\ calls[2].op = "order_market"
    /\ calls[2].ok
    /\ locals.action = "Buy"

\* ------------------------------------------------------------------------
\* C16: a successful Buy entry at tick price p stores side BUY, entry_price
\* p, the quantity that was sent in the order, target_price
\* p * (1 + profit_target/100) and stop_price p * (1 - stop_loss/100), p
\* being the price that gave the Buy signal; when the order fails nothing
\* is stored.
\* ------------------------------------------------------------------------
C16_BuyEntryFields ==
    [][(FetchedTick /\ locals'.action = "Buy") =>
         LET p == market[Len(market)]
             o == Orders(calls')[1]
         IN  /\ Len(Orders(calls')) > 0
             /\ locals'.current_price = p
             /\ o.side = "BUY"
             /\ IF o.ok
                THEN active_trade' =
                       [side |-> "BUY", entry_price |-> p,
                        quantity |-> o.quantity,
                        target_price |-> p * 1000 + p * profit_target,
                        stop_price |-> p * 1000 - p * stop_loss]
                ELSE active_trade' = active_trade]_vars

\* A stored Buy position whose two percentages differ.
C16_Witness ==
    /\ active_trade.side = "BUY"
    /\ pc = "idle"
    /\ Len(calls) = 2
    /\ calls[2].ok
    /\ calls[2].quantity = active_trade.quantity
    /\ profit_target # stop_loss

\* ------------------------------------------------------------------------
\* C17: a stored position is absorbing: from then on every step leaves
\* active_trade as it is, the handler is never in the loop again, no
\* exchange call of any kind is made, a click on Run Bot produces the
\* warning and nothing else, and an order only ever succeeds from an empty
\* slot, which it fills: at most one order succeeds per session.
\* ------------------------------------------------------------------------
C17_ActiveTradeAbsorbing ==
    [][/\ active_trade # None =>
            /\ active_trade' = active_trade
            /\ pc = "idle" /\ pc' = "idle"
            /\ calls' = <<>>
            /\ market' = market =>
                 messages' = <<"An active trade is already in progress.">>
            /\ market' # market => messages' = <<>>
       /\ \A i \in 1..Len(calls') :
            (calls'[i].op = "order_market" /\ calls'[i].ok) =>
                /\ active_trade = None
                /\ active_trade' # None
                /\ Len(Orders(calls')) = 1]_vars

\* The price is past the target or the stop of the stored position, and the
\* click that was just handled produced the warning.
C17_Witness ==
    /\ ExitDue(active_trade, market)
    /\ pc = "idle"
    /\ calls = <<>>
    /\ messages = <<"An active trade is already in progress.">>

\* ------------------------------------------------------------------------
\* C18: active_trade is None whenever the handler is in the loop, so the
\* Sell branch and the exit monitoring never run: no balance is read, no
\* SELL order is sent, and every order sent is the BUY of a Buy signal.
\* ------------------------------------------------------------------------
C18_OnlyBuyEntries ==
    /\ pc # "idle" => active_trade = None
    /\ active_trade.side # "SELL"
    /\ \A i \in 1..Len(calls) :
         /\ calls[i].op # "get_asset_balance"
         /\ calls[i].op = "order_market" =>
              /\ calls[i].side = "BUY"
              /\ locals.action = "Buy"
    /\ \A i \in 1..Len(messages) :
         messages[i] \notin {"Sell order placed", "Profit target reached",
                             "Stop loss triggered"}

\* A tick with a Sell signal that only fetched the candles.
C18_Witness ==
    /\ locals.action = "Sell"
    /\ pc = "sleep"
    /\ calls = <<KlinesCall(TRUE)>>
    /\ active_trade = None

\* ------------------------------------------------------------------------
\* C19: a stored position is well-formed: BUY has stop_price < entry_price
\* < target_price, SELL has target_price < entry_price < stop_price, so no
\* single price meets the target and the stop condition of one position.
\* (target_price and stop_price are in 1/1000 of the unit of entry_price.)
\* ------------------------------------------------------------------------
C19_WellFormedPosition ==
    active_trade # None =>
        /\ active_trade.entry_price > 0
        /\ active_trade.side = "BUY" =>
             /\ active_trade.stop_price < active_trade.entry_price * 1000
             /\ active_trade.entry_price * 1000 < active_trade.target_price
        /\ active_trade.side = "SELL" =>
             /\ active_trade.target_price < active_trade.entry_price * 1000
             /\ active_trade.entry_price * 1000 < active_trade.stop_price
        /\ \A w \in Windows :
             Len(w) > 0 =>
                 ~(/\ TargetReached(active_trade, w[Len(w)])
                   /\ StopTriggered(active_trade, w[Len(w)]))

\* A stored Sell position with the smallest percentages.
C19_Witness ==
    /\ active_trade.side = "SELL"
    /\ pc = "idle"
    /\ active_trade.entry_price = market[Len(market)]
    /\ profit_target = MinPct
    /\ stop_loss = MinPct

====
